---- MODULE Spec2Model ----
(***************************************************************************)
(* Model of the Transavia flight-offer crawler (the `crawl` action `main`  *)
(* and the Mailer it hands its report to).                                 *)
(*                                                                         *)
(* JavaScript strings are sequences of one-character strings, JavaScript   *)
(* values are tagged records (Num / Str / Bool), instants are whole hours  *)
(* since 2020-01-01T00:00Z.                                                *)
(***************************************************************************)
EXTENDS Integers, Sequences, FiniteSets, TLC

(***************************************************************************)
(* JavaScript values and strings                                           *)
(***************************************************************************)
Digits == <<"0", "1", "2", "3", "4", "5", "6", "7", "8", "9">>

Num(n) == [type |-> "number", n |-> n, s |-> <<>>]
Str(s) == [type |-> "string", n |-> 0, s |-> s]
Bool(b) == [type |-> "boolean", n |-> (IF b THEN 1 ELSE 0), s |-> <<>>]

DigitVal(c) == (CHOOSE k \in 1..10 : Digits[k] = c) - 1

IsDigit(c) == \E k \in 1..10 : Digits[k] = c

RECURSIVE DigitsToNat(_)
DigitsToNat(s) ==
  IF s = <<>> THEN 0
  ELSE 10 * DigitsToNat(SubSeq(s, 1, Len(s) - 1)) + DigitVal(s[Len(s)])

RECURSIVE NatToDigits(_)
NatToDigits(n) ==
  IF n < 10 THEN <<Digits[n + 1]>>
  ELSE NatToDigits(n \div 10) \o <<Digits[(n % 10) + 1]>>

\* String.prototype.padStart(w, "0") as toISOString applies it to its fields
RECURSIVE Pad(_, _)
Pad(s, w) == IF Len(s) >= w THEN s ELSE Pad(<<"0">> \o s, w)

\* String.prototype.trim
RECURSIVE Trim(_)
Trim(s) ==
  IF s = <<>> THEN s
  ELSE IF s[1] = " " THEN Trim(Tail(s))
  ELSE IF s[Len(s)] = " " THEN Trim(SubSeq(s, 1, Len(s) - 1))
  ELSE s

\* String.prototype.replace(c, "") with a string pattern: the first occurrence
RECURSIVE RemoveFirst(_, _)
RemoveFirst(s, c) ==
  IF s = <<>> THEN s
  ELSE IF s[1] = c THEN Tail(s)
  ELSE <<s[1]>> \o RemoveFirst(Tail(s), c)

\* String.prototype.replace(/c/g, ""): every occurrence
RemoveAll(s, c) == SelectSeq(s, LAMBDA x : x # c)

\* String.prototype.split(c)
RECURSIVE Split(_, _)
Split(s, c) ==
  IF \A k \in 1..Len(s) : s[k] # c THEN <<s>>
  ELSE LET p == CHOOSE k \in 1..Len(s) : s[k] = c /\ \A j \in 1..(k - 1) : s[j] # c
       IN <<SubSeq(s, 1, p - 1)>> \o Split(SubSeq(s, p + 1, Len(s)), c)

\* ToNumber of a string of decimal digits, surrounding blanks ignored; "" is 0
StringToNumber(s) == DigitsToNat(Trim(s))

\* ToNumber of a value, as the relational operators and unary + apply it
ToNumber(v) == IF v.type = "string" THEN StringToNumber(v.s) ELSE v.n

\* ToString of a value (JSToString), as a template literal applies it
JSToString(v) ==
  IF v.type = "string" THEN v.s
  ELSE IF v.type = "boolean"
       THEN (IF v.n = 1 THEN <<"t", "r", "u", "e">> ELSE <<"f", "a", "l", "s", "e">>)
  ELSE NatToDigits(v.n)

\* ToBoolean of a value, as `value && ...` applies it
Truthy(v) == IF v.type = "string" THEN v.s # <<>> ELSE v.n # 0

(***************************************************************************)
(* Calendar and clock of the built-in Date                                 *)
(***************************************************************************)
Years == 2020..2027

IsLeap(y) == (y % 4 = 0 /\ y % 100 # 0) \/ y % 400 = 0

DaysInYear(y) == IF IsLeap(y) THEN 366 ELSE 365

DaysInMonth(y, m) ==
  IF m = 2 THEN (IF IsLeap(y) THEN 29 ELSE 28)
  ELSE IF m \in {4, 6, 9, 11} THEN 30 ELSE 31

RECURSIVE DaysBeforeYear(_)
DaysBeforeYear(y) ==
  IF y <= 2020 THEN 0 ELSE DaysBeforeYear(y - 1) + DaysInYear(y - 1)

RECURSIVE DaysBeforeMonth(_, _)
DaysBeforeMonth(y, m) ==
  IF m <= 1 THEN 0 ELSE DaysBeforeMonth(y, m - 1) + DaysInMonth(y, m - 1)

\* MakeDay(year, month, date): the day number of a year, a month and a date
\* that may run past the end of the month
MakeDay(y, m, d) == DaysBeforeYear(y) + DaysBeforeMonth(y, m) + (d - 1)

YearFromDay(n) ==
  CHOOSE y \in Years : DaysBeforeYear(y) <= n /\ n < DaysBeforeYear(y) + DaysInYear(y)

MonthFromDay(n) ==
  LET y == YearFromDay(n)
      r == n - DaysBeforeYear(y)
  IN CHOOSE m \in 1..12 :
       DaysBeforeMonth(y, m) <= r /\ r < DaysBeforeMonth(y, m) + DaysInMonth(y, m)

DateFromDay(n) ==
  LET y == YearFromDay(n)
      m == MonthFromDay(n)
  IN n - DaysBeforeYear(y) - DaysBeforeMonth(y, m) + 1

\* floor division, also of instants before the base year
Day(t) == IF t >= 0 THEN t \div 24 ELSE -(((-t) + 24 - 1) \div 24)

HourOfDay(t) == t - Day(t) * 24

Instant(y, m, d, h) == MakeDay(y, m, d) * 24 + h

(***************************************************************************)
(* The machine's time zone: a base offset and the transitions after it     *)
(***************************************************************************)
ZoneUTC == [base |-> 0, trans |-> <<>>]
ZoneTokyo == [base |-> 9, trans |-> <<>>]
ZoneParis ==
  [base |-> 1,
   trans |-> << [at |-> Instant(2023, 3, 26, 1), off |-> 2],
                [at |-> Instant(2023, 10, 29, 1), off |-> 1],
                [at |-> Instant(2024, 3, 31, 1), off |-> 2],
                [at |-> Instant(2024, 10, 27, 1), off |-> 1] >>]
ZoneNewYork ==
  [base |-> -5,
   trans |-> << [at |-> Instant(2023, 3, 12, 7), off |-> -4],
                [at |-> Instant(2023, 11, 5, 6), off |-> -5],
                [at |-> Instant(2024, 3, 10, 7), off |-> -4],
                [at |-> Instant(2024, 11, 3, 6), off |-> -5] >>]

Zones == {ZoneUTC, ZoneTokyo, ZoneParis, ZoneNewYork}

\* the zone's offset from UTC at a UTC instant
OffsetAt(z, t) ==
  LET past == {k \in 1..Len(z.trans) : z.trans[k].at <= t}
  IN IF past = {} THEN z.base
     ELSE z.trans[CHOOSE k \in past : \A j \in past : j <= k].off

LocalTime(z, t) == t + OffsetAt(z, t)

\* UTC(t): the instant of a local time; the earlier one when the local time
\* occurs twice, the offset before the transition when it never occurs
UTCOfLocal(z, tl) ==
  LET offs == {z.base} \cup {z.trans[k].off : k \in 1..Len(z.trans)}
      cand == {tl - o : o \in {p \in offs : OffsetAt(z, tl - p) = p}}
  IN IF cand # {} THEN CHOOSE u \in cand : \A v \in cand : u <= v
     ELSE tl - OffsetAt(z, tl - 24)

(***************************************************************************)
(* Date helpers of main                                                    *)
(***************************************************************************)
AllDigits(s) == \A k \in 1..Len(s) : IsDigit(s[k])

\* start.replace(/(\d{4})(\d{2})(\d{2})/, "$1-$2-$3"): the first run of eight
\* digits gets its dashes, a string without one is left as it is
FormattedStart(start) ==
  LET hits == {p \in 1..(Len(start) - 7) : AllDigits(SubSeq(start, p, p + 7))}
  IN IF hits = {} THEN start
     ELSE LET p == CHOOSE q \in hits : \A r \in hits : q <= r
          IN SubSeq(start, 1, p + 3) \o <<"-">> \o SubSeq(start, p + 4, p + 5)
               \o <<"-">> \o SubSeq(start, p + 6, Len(start))

\* new Date("YYYY-MM-DD"): a date-only ISO string is midnight UTC of that date
ParseISODate(s) ==
  LET f == Split(s, "-")
  IN Instant(DigitsToNat(f[1]), DigitsToNat(f[2]), DigitsToNat(f[3]), 0)

\* Date.prototype.getDate: the day of the month in local time
GetDate(z, t) == DateFromDay(Day(LocalTime(z, t)))

\* Date.prototype.setDate: the local day of the month replaced, the local
\* time of day kept, the result taken back to UTC
SetDate(z, t, d) ==
  LET tl == LocalTime(z, t)
      n == Day(tl)
  IN UTCOfLocal(z, MakeDay(YearFromDay(n), MonthFromDay(n), d) * 24 + HourOfDay(tl))

AddDays(z, t, days) == SetDate(z, t, GetDate(z, t) + days)

\* Date.prototype.toISOString: the UTC fields, "YYYY-MM-DDTHH:00:00.000Z"
ToISOString(t) ==
  LET n == Day(t)
  IN Pad(NatToDigits(YearFromDay(n)), 4) \o <<"-">>
       \o Pad(NatToDigits(MonthFromDay(n)), 2) \o <<"-">>
       \o Pad(NatToDigits(DateFromDay(n)), 2) \o <<"T">>
       \o Pad(NatToDigits(HourOfDay(t)), 2)
       \o <<":", "0", "0", ":", "0", "0", ".", "0", "0", "0", "Z">>

\* date.toISOString().split('T')[0].replace(/-/g, '') of the i-th day
OriginDepartureDate(z, start, i) ==
  RemoveAll(Split(ToISOString(AddDays(z, ParseISODate(FormattedStart(start)), i)), "T")[1], "-")

(***************************************************************************)
(* The crawl action: arguments, query, filter                              *)
(***************************************************************************)
requiredArgs == <<"origin", "destination", "start", "mail">>

NumDays == 15
DefaultAdults == 2
DefaultChildren == 0
DefaultHourStart == 0
DefaultHourEnd == 24
DefaultMaxPrice == 1000

\* process.exit(1) of the two validation failures
ExitFailure == 1

\* program.help(): commander prints the usage and ends the process itself,
\* with process.exitCode || 0; the statement after it is never reached
HelpExitCode == 0

\* a ?? b on an option that commander leaves out of the object when not given
Opt(a, name, default) == IF name \in DOMAIN a THEN a[name] ELSE default

\* the first required argument that is not in args, 0 when all are there
FirstMissing(a) ==
  LET miss == {k \in 1..Len(requiredArgs) : requiredArgs[k] \notin DOMAIN a}
  IN IF miss = {} THEN 0 ELSE CHOOSE k \in miss : \A j \in miss : k <= j

\* the params object with originDepartureDate set for the i-th day,
\* as Object.entries lists it
Params(a, z, i) ==
  << [key |-> "origin", value |-> a["origin"]],
     [key |-> "destination", value |-> a["destination"]],
     [key |-> "originDepartureDate", value |-> Str(OriginDepartureDate(z, a["start"].s, i))],
     [key |-> "directFlight", value |-> Bool(TRUE)],
     [key |-> "adults", value |-> Opt(a, "adults", Num(DefaultAdults))],
     [key |-> "children", value |-> Opt(a, "children", Num(DefaultChildren))],
     [key |-> "hourRange", value |-> Opt(a, "hourRange", Str(<<"0", "-", "2", "4">>))] >>

\* Object.entries(params).map(([key, value]) => value && `${key}=${value}`)
\*   .filter(Boolean): the key=value pairs that join('&') puts in the URL
Query(a, z, i) ==
  LET e == SelectSeq(Params(a, z, i), LAMBDA kv : Truthy(kv.value))
  IN [k \in 1..Len(e) |-> [key |-> e[k].key, value |-> JSToString(e[k].value)]]

\* hourRange?.split('-')[0] ?? 0
HourRangeStart(a) ==
  IF "hourRange" \in DOMAIN a
  THEN Str(Split(a["hourRange"].s, "-")[1])
  ELSE Num(DefaultHourStart)

\* hourRange?.split('-')[1] ?? 24
HourRangeEnd(a) ==
  IF "hourRange" \in DOMAIN a /\ Len(Split(a["hourRange"].s, "-")) >= 2
  THEN Str(Split(a["hourRange"].s, "-")[2])
  ELSE Num(DefaultHourEnd)

\* price ?? 1_000
MaxPrice(a) == Opt(a, "price", Num(DefaultMaxPrice))

\* A timestamp of the API is the local hour of day it falls in, or -1 when
\* new Date(timestamp) is an Invalid Date
ValidTime(ts) == ts >= 0

\* Intl.DateTimeFormat('fr-FR', { hour: 'numeric' }).format(...): "HH h"
FormatHour(ts) == Pad(NatToDigits(ts), 2) \o <<" ", "h">>

\* .replace(/^0/, '')
StripLeadingZero(s) == IF s # <<>> /\ s[1] = "0" THEN Tail(s) ELSE s

\* +format(departure).replace('h', '').replace(/^0/, '').trim()
DepartureHour(ts) ==
  StringToNumber(Trim(StripLeadingZero(RemoveFirst(FormatHour(ts), "h"))))

\* priceOnePassenger < maxPrice
PricePasses(a, f) == f.priceOnePassenger < ToNumber(MaxPrice(a))

\* hour < hourRangeStart || hour > hourRangeEnd
HourRejected(a, hour) ==
  hour < ToNumber(HourRangeStart(a)) \/ hour > ToNumber(HourRangeEnd(a))

\* the sentence appended to mailText
TextRow(a, f) ==
  [flightNumber |-> f.flightNumber, priceOnePassenger |-> f.priceOnePassenger]

\* the <tr> appended to mailHTML
HtmlRow(a, f) ==
  [flightNumber |-> f.flightNumber, priceOnePassenger |-> f.priceOnePassenger,
   passengers |-> ToNumber(Opt(a, "adults", Num(DefaultAdults)))
                    + ToNumber(Opt(a, "children", Num(DefaultChildren)))]

(***************************************************************************)
(* Inputs                                                                  *)
(***************************************************************************)
\* the most offers the API returns over one run
MaxOffers == 2

\* offers of the API: price per passenger, departure and arrival timestamps
OfferKinds ==
  { [priceOnePassenger |-> 150, departureDateTime |-> 9, arrivalDateTime |-> 11],
    [priceOnePassenger |-> 150, departureDateTime |-> 18, arrivalDateTime |-> 20],
    [priceOnePassenger |-> 200, departureDateTime |-> 17, arrivalDateTime |-> 19],
    [priceOnePassenger |-> 1000, departureDateTime |-> 10, arrivalDateTime |-> 12],
    [priceOnePassenger |-> 150, departureDateTime |-> 10, arrivalDateTime |-> -1],
    [priceOnePassenger |-> 150, departureDateTime |-> -1, arrivalDateTime |-> 12] }

ArgValue ==
  [origin |-> Str(<<"O", "R", "Y">>),
   destination |-> Str(<<"L", "I", "S">>),
   start |-> Str(<<"2", "0", "2", "4", "0", "3", "2", "0">>),
   mail |-> Str(<<"a", "@", "b">>),
   price |-> Str(<<"2", "0", "0">>),
   hourRange |-> Str(<<"9", "-", "1", "7">>)]

\* commander hands over exactly the options that were given
ArgsOf(names) == [k \in names |-> ArgValue[k]]

RunArgs ==
  { ArgsOf(r \cup o) : r \in SUBSET {"origin", "destination", "start", "mail"},
                       o \in {{}, {"price", "hourRange"}} }

StartDates ==
  { <<"2", "0", "2", "4", "0", "6", "0", "1">>,
    <<"2", "0", "2", "3", "1", "2", "2", "5">>,
    <<"2", "0", "2", "4", "0", "2", "2", "0">>,
    <<"2", "0", "2", "3", "0", "2", "2", "0">>,
    <<"2", "0", "2", "4", "0", "3", "0", "1">>,
    <<"2", "0", "2", "4", "0", "3", "2", "0">>,
    <<"2", "0", "2", "4", "1", "0", "2", "0">> }

CountValues == {Str(<<"0">>), Str(<<"3">>)}

\* every argument given, and each of adults, children and hourRange given or not
RequestArgs ==
  { [k \in {"origin", "destination", "start", "mail"} \cup o |->
       IF k = "start" THEN Str(d)
       ELSE IF k = "adults" THEN ad
       ELSE IF k = "children" THEN ch
       ELSE ArgValue[k]] :
      d \in StartDates, ad \in CountValues, ch \in CountValues,
      o \in SUBSET {"adults", "children", "hourRange"} }

(***************************************************************************)
(* State                                                                   *)
(***************************************************************************)
VARIABLES
  apiKey,      \* process.env.TRANSAVIA_API_KEY is set
  args,        \* the options object handed to main
  zone,        \* the time zone of the machine
  pc,          \* where main, or the process after it, stands
  i,           \* the loop index
  requests,    \* the GET requests issued so far
  pending,     \* the offers of the response the for-of has yet to visit
  returned,    \* every offer the API has returned, in order
  mailText,    \* rows of the plain-text body
  mailHTML,    \* rows of the HTML body
  hasResults,
  mailCalls,   \* the messages handed to the transport by Mailer.sendMail
  transport,   \* "idle", "pending", "ok" or "failed"
  console,     \* lines printed by the validation and by the mail step
  exitCode,    \* -1 while the process runs
  failedAt     \* history: the rows of mailText when a request last failed, or -1

vars == <<apiKey, args, zone, pc, i, requests, pending, returned, mailText,
          mailHTML, hasResults, mailCalls, transport, console, exitCode, failedAt>>

InitRun ==
  /\ pc = "validate"
  /\ i = 0
  /\ requests = <<>>
  /\ pending = <<>>
  /\ returned = <<>>
  /\ mailText = <<>>
  /\ mailHTML = <<>>
  /\ hasResults = FALSE
  /\ mailCalls = <<>>
  /\ transport = "idle"
  /\ console = {}
  /\ exitCode = -1
  /\ failedAt = -1

Init ==
  /\ apiKey \in BOOLEAN
  /\ args \in RunArgs
  /\ zone = ZoneParis
  /\ InitRun

InitRequests ==
  /\ apiKey = TRUE
  /\ args \in RequestArgs
  /\ zone \in Zones
  /\ InitRun

(***************************************************************************)
(* main                                                                    *)
(***************************************************************************)
\* the checks at the head of main; both failures end the process
Validate ==
  /\ pc = "validate"
  /\ IF ~apiKey
     THEN /\ console' = console \cup {"Missing Transavia API key"}
          /\ exitCode' = ExitFailure
          /\ pc' = "aborted"
     ELSE IF FirstMissing(args) # 0
     THEN /\ console' = console \cup {"Missing required argument", "usage"}
          /\ exitCode' = HelpExitCode
          /\ pc' = "aborted"
     ELSE /\ pc' = "loop"
          /\ UNCHANGED <<console, exitCode>>
  /\ UNCHANGED <<apiKey, args, zone, i, requests, pending, returned, mailText,
                 mailHTML, hasResults, mailCalls, transport, failedAt>>

\* a catch block that gives the scan up
AfterCatchAborts(n) == NumDays

\* the index the loop goes on with after the catch block
AfterCatch(n) == n + 1

\* axios.get(URL) for the i-th day, awaited
IssueRequest ==
  /\ pc = "loop"
  /\ i < NumDays
  /\ requests' = Append(requests, [offset |-> i, query |-> Query(args, zone, i)])
  /\ pc' = "await"
  /\ UNCHANGED <<apiKey, args, zone, i, pending, returned, mailText, mailHTML,
                 hasResults, mailCalls, transport, console, exitCode, failedAt>>

\* the request fails: the catch block logs the body and the loop goes on
HttpFailure ==
  /\ pc = "await"
  /\ i' = AfterCatch(i)
  /\ pc' = "loop"
  /\ failedAt' = Len(mailText)
  /\ UNCHANGED <<apiKey, args, zone, requests, pending, returned, mailText,
                 mailHTML, hasResults, mailCalls, transport, console, exitCode>>

\* if (flightOffer.length) hasResults = true
HasResultsAfter(had, flightOffer) == had \/ Len(flightOffer) # 0

\* the request succeeds with a list of offers
HttpSuccess ==
  /\ pc = "await"
  /\ \E n \in 0..(MaxOffers - Len(returned)) :
       \E kinds \in [1..n -> OfferKinds] :
         LET flightOffer ==
               [k \in 1..n |->
                  [flightNumber |-> Len(returned) + k,
                   priceOnePassenger |-> kinds[k].priceOnePassenger,
                   departureDateTime |-> kinds[k].departureDateTime,
                   arrivalDateTime |-> kinds[k].arrivalDateTime]]
         IN /\ hasResults' = HasResultsAfter(hasResults, flightOffer)
            /\ pending' = flightOffer
            /\ returned' = returned \o flightOffer
  /\ pc' = "offers"
  /\ UNCHANGED <<apiKey, args, zone, i, requests, mailText, mailHTML, mailCalls,
                 transport, console, exitCode, failedAt>>

\* an exception in the for-of body: the catch block of the day takes over
Thrown ==
  /\ pending' = <<>>
  /\ i' = AfterCatch(i)
  /\ pc' = "loop"

\* one pass of the for-of body
ProcessOffer ==
  /\ pc = "offers"
  /\ pending # <<>>
  /\ LET flight == Head(pending)
     IN IF ~PricePasses(args, flight)
        THEN /\ pending' = Tail(pending)
             /\ UNCHANGED <<i, pc, mailText, mailHTML>>
        ELSE IF ~ValidTime(flight.departureDateTime)
        THEN \* format(new Date(departureTime)) throws RangeError
             /\ Thrown
             /\ UNCHANGED <<mailText, mailHTML>>
        ELSE IF HourRejected(args, DepartureHour(flight.departureDateTime))
        THEN /\ pending' = Tail(pending)
             /\ UNCHANGED <<i, pc, mailText, mailHTML>>
        ELSE /\ mailText' = Append(mailText, TextRow(args, flight))
             /\ IF ~ValidTime(flight.arrivalDateTime)
                THEN \* formatDate(arrivalTime) throws RangeError
                     /\ Thrown
                     /\ UNCHANGED mailHTML
                ELSE /\ mailHTML' = Append(mailHTML, HtmlRow(args, flight))
                     /\ pending' = Tail(pending)
                     /\ UNCHANGED <<i, pc>>
  /\ UNCHANGED <<apiKey, args, zone, requests, returned, hasResults, mailCalls,
                 transport, console, exitCode, failedAt>>

\* the for-of is through: i++
NextDay ==
  /\ pc = "offers"
  /\ pending = <<>>
  /\ i' = i + 1
  /\ pc' = "loop"
  /\ UNCHANGED <<apiKey, args, zone, requests, pending, returned, mailText,
                 mailHTML, hasResults, mailCalls, transport, console, exitCode, failedAt>>

\* Mailer.sendMail: the message goes to the transport, a promise comes back
SendMail(subject, text, html) ==
  /\ mailCalls' = Append(mailCalls,
                         [to |-> args["mail"].s, subject |-> subject,
                          text |-> text, html |-> html, after |-> i])
  /\ transport' = "pending"

\* after the loop: if (hasResults) mailer.sendMail(...)
MailStep ==
  /\ pc = "loop"
  /\ i >= NumDays
  /\ IF hasResults
     THEN /\ SendMail("Nouvelle offre de vol", mailText, mailHTML)
          /\ pc' = "log"
     ELSE /\ pc' = "returned"
          /\ UNCHANGED <<mailCalls, transport>>
  /\ UNCHANGED <<apiKey, args, zone, i, requests, pending, returned, mailText,
                 mailHTML, hasResults, console, exitCode, failedAt>>

\* a send that main awaits, and a send whose rejection main catches
SendAwaitedInstead == TRUE
SendCaughtInstead == TRUE

\* the promise of sendMail is dropped: main neither awaits nor catches it
SendAwaited == FALSE
SendCaught == FALSE

\* console.log('Mail bien envoyé !')
LogSent ==
  /\ pc = "log"
  /\ SendAwaited => transport = "ok"
  /\ console' = console \cup {"Mail bien envoye !"}
  /\ pc' = "returned"
  /\ UNCHANGED <<apiKey, args, zone, i, requests, pending, returned, mailText,
                 mailHTML, hasResults, mailCalls, transport, exitCode, failedAt>>

\* callbacks of the transport run once main has run to its end (or to an await)
TransportMaySettle ==
  /\ transport = "pending"
  /\ IF SendAwaited THEN pc = "log" ELSE pc = "returned"

TransportAck ==
  /\ TransportMaySettle
  /\ transport' = "ok"
  /\ UNCHANGED <<apiKey, args, zone, pc, i, requests, pending, returned,
                 mailText, mailHTML, hasResults, mailCalls, console, exitCode, failedAt>>

TransportFail ==
  /\ TransportMaySettle
  /\ transport' = "failed"
  /\ pc' = "returned"
  /\ UNCHANGED <<apiKey, args, zone, i, requests, pending, returned, mailText,
                 mailHTML, hasResults, mailCalls, console, exitCode, failedAt>>

\* the status the process ends with once nothing is left to do: a rejection
\* nobody handles is raised as an uncaught exception
FinalStatus == IF transport = "failed" /\ ~SendCaught THEN 1 ELSE 0

ProcessEnd ==
  /\ pc = "returned"
  /\ transport # "pending"
  /\ exitCode' = FinalStatus
  /\ pc' = "ended"
  /\ UNCHANGED <<apiKey, args, zone, i, requests, pending, returned, mailText,
                 mailHTML, hasResults, mailCalls, transport, console, failedAt>>

Next ==
  \/ Validate
  \/ IssueRequest
  \/ HttpFailure
  \/ HttpSuccess
  \/ ProcessOffer
  \/ NextDay
  \/ MailStep
  \/ LogSent
  \/ TransportAck
  \/ TransportFail
  \/ ProcessEnd

Spec == Init /\ [][Next]_vars

\* the requests of a scan in which no day answers
NextRequests ==
  \/ Validate
  \/ IssueRequest
  \/ HttpFailure

SpecRequests == InitRequests /\ [][NextRequests]_vars

(***************************************************************************)
(* Properties                                                              *)
(***************************************************************************)
IsPrefix(s, t) == Len(s) <= Len(t) /\ SubSeq(t, 1, Len(s)) = s

FlightNumbers(rows) == [k \in 1..Len(rows) |-> rows[k].flightNumber]

\* the admission rule as the specification words it, on the offer's own hour
Admitted(a, f) ==
  /\ f.priceOnePassenger < ToNumber(MaxPrice(a))
  /\ ValidTime(f.departureDateTime)
  /\ ToNumber(HourRangeStart(a)) <= f.departureDateTime
  /\ f.departureDateTime <= ToNumber(HourRangeEnd(a))

AdmittedOffers == SelectSeq(returned, LAMBDA f : Admitted(args, f))

Validated == apiKey /\ FirstMissing(args) = 0

MailLogged == "Mail bien envoye !" \in console

\* C1: when no returned offer is admitted into the report, sendMail is never
\* called, also when the API returned offers that the filters all rejected.
C1_NoMailWithoutAdmitted == mailCalls # <<>> => AdmittedOffers # <<>>

\* C2: when at least one offer is admitted, sendMail is called exactly once,
\* after the last day, and both bodies hold one row per admitted offer in the
\* order the offers were met.
C2_OneMailOneRowPerAdmitted ==
  (pc = "ended" /\ AdmittedOffers # <<>>) =>
    /\ Len(mailCalls) = 1
    /\ mailCalls[1].after = NumDays
    /\ FlightNumbers(mailCalls[1].text) = FlightNumbers(AdmittedOffers)
    /\ FlightNumbers(mailCalls[1].html) = FlightNumbers(AdmittedOffers)

\* C3: once a day's response is worked off, every offer returned so far is in
\* the report exactly when its price is below maxPrice (default 1000) and its
\* departure hour lies in the hour range (default 0 to 24, bounds included).
C3_AppendedIffPasses ==
  pc \in {"loop", "log", "returned", "ended"} =>
    \A k \in 1..Len(returned) :
      ( /\ \E r \in 1..Len(mailText) : mailText[r].flightNumber = returned[k].flightNumber
        /\ \E r \in 1..Len(mailHTML) : mailHTML[r].flightNumber = returned[k].flightNumber )
      <=> Admitted(args, returned[k])

\* C4: a run with origin, destination, start or mail missing, or without the
\* API key, ends with exit status 1, having issued no request and sent no mail.
C4_ValidationFailureExitsOne ==
  (pc # "validate" /\ ~Validated) =>
    /\ exitCode = 1
    /\ requests = <<>>
    /\ mailCalls = <<>>

C5_Requests ==
  /\ \A k \in 1..Len(requests) : requests[k].offset = k - 1
  /\ Len(requests) <= NumDays
  /\ pc = "loop" => Len(requests) = i
  /\ pc \in {"await", "offers"} => Len(requests) = i + 1
  /\ pc \in {"log", "returned", "ended"} => Len(requests) = NumDays

C5_RowsKept ==
  /\ IsPrefix(mailText, mailText')
  /\ IsPrefix(mailHTML, mailHTML')
  /\ mailCalls' # mailCalls =>
       mailCalls'[Len(mailCalls')].text = mailText /\ mailCalls'[Len(mailCalls')].html = mailHTML

\* C5: a validated run issues exactly one request per offset 0..14, in
\* ascending order, the next one only when the one before has completed; a
\* failed request is neither retried nor ends the scan, and the rows appended
\* before it stay in the report that is mailed.
C5_SequentialScan == []C5_Requests /\ [][C5_RowsKept]_vars

C5_Witness ==
  /\ pc = "ended"
  /\ Len(requests) = NumDays
  /\ failedAt >= 1
  /\ mailCalls # <<>>
  /\ Len(mailCalls[1].text) > failedAt

QueryValue(q, key) ==
  LET hits == {k \in 1..Len(q) : q[k].key = key}
  IN IF hits = {} THEN <<>> ELSE q[CHOOSE k \in hits : TRUE].value

\* the calendar date n days after the 8-digit date d, as 8 digits
CalendarDatePlus(d, n) ==
  LET day == MakeDay(DigitsToNat(SubSeq(d, 1, 4)), DigitsToNat(SubSeq(d, 5, 6)),
                     DigitsToNat(SubSeq(d, 7, 8))) + n
  IN Pad(NatToDigits(YearFromDay(day)), 4) \o Pad(NatToDigits(MonthFromDay(day)), 2)
       \o Pad(NatToDigits(DateFromDay(day)), 2)

\* C6: the originDepartureDate of the i-th request is the start date plus i
\* calendar days as 8 digits, whatever the time zone of the machine and the
\* daylight-saving changes inside the window.
C6_DatesAreStartPlusOffset ==
  \A k \in 1..Len(requests) :
    QueryValue(requests[k].query, "originDepartureDate")
      = CalendarDatePlus(args["start"].s, requests[k].offset)

\* C7: every request carries exactly origin, destination, originDepartureDate,
\* directFlight=true, adults (2 when not given) and children (0 when not
\* given), a value of 0 included.
C7_QueryParameters ==
  \A k \in 1..Len(requests) :
    LET q == requests[k].query
    IN /\ {q[j].key : j \in 1..Len(q)}
            = {"origin", "destination", "originDepartureDate", "directFlight",
               "adults", "children"}
       /\ Len(q) = 6
       /\ QueryValue(q, "directFlight") = <<"t", "r", "u", "e">>
       /\ QueryValue(q, "adults") = JSToString(Opt(args, "adults", Num(2)))
       /\ QueryValue(q, "children") = JSToString(Opt(args, "children", Num(0)))

\* C8: a run that reaches the mail step ends with status 0 when the transport
\* succeeds or no mail is sent, and with a status other than 0 when the send
\* fails, the failure being left unhandled.
C8_ExitStatus ==
  pc = "ended" =>
    IF transport = "failed" THEN exitCode # 0 /\ exitCode # -1 ELSE exitCode = 0

C8_Witness == pc = "ended" /\ transport = "failed" /\ exitCode = 1

\* C9: the plain-text buffer and the HTML buffer hold the same number of offer
\* rows at every point of the scan, also when an offer fails part-way.
C9_BuffersBalanced == Len(mailText) = Len(mailHTML)

\* C10: whenever sendMail was invoked, 'Mail bien envoyé !' is logged before
\* the transport acknowledges or fails, so it is logged in every such run,
\* the runs whose send fails included.
C10_LoggedBeforeOutcome ==
  /\ transport \in {"ok", "failed"} => MailLogged
  /\ (pc \in {"returned", "ended"} /\ mailCalls # <<>>) => MailLogged
  /\ MailLogged => mailCalls # <<>>

C10_Witness == transport = "failed" /\ MailLogged /\ pc = "ended"
====
